---- MODULE Spec2Model ----
(***************************************************************************)
(* natedown (src/app.py): a Flask application that, for each Dropbox user, *)
(* pages through /delta, renders every changed Markdown file to HTML,      *)
(* shares the HTML and writes the published URL back as a comment at the   *)
(* top of the Markdown file.  process_user runs in the OAuth callback and  *)
(* in one thread per user id named by a webhook notification.              *)
(*                                                                         *)
(* Strings the code slices or tests (paths) are sequences of one-character *)
(* strings.  A file's content is the sequence of its lines (what           *)
(* md.split('\n') yields); a line is a sequence of tokens.  An optional    *)
(* value (Python's None) is the empty sequence, a present one <<v>>.       *)
(***************************************************************************)
EXTENDS Integers, Sequences, FiniteSets, TLC

\* ------------------------------------------------------------------ bounds
MaxRuns == 2        \* process_user invocations started in one behaviour
MaxReqs == 1        \* webhook POSTs received in one behaviour
PageSize == 2       \* entries Dropbox returns in one /delta page

\* ------------------------------------------------------------- values
None == << >>
Some(v) == <<v>>

Uids == {1, 2}

APP_SECRET == "app-secret"

\* The paths of the modelled Dropbox accounts.
PathDoc == <<"/", "a", " ", "b", ".", "m", "d">>
PathDir == <<"/", "d", ".", "m", "d">>
PathGone == <<"/", "g", ".", "m", "d">>
PathNoDot == <<"/", "a", "m", "d">>

MdExt == <<".", "m", "d">>
HtmlExt == <<".", "h", "t", "m", "l">>

\* str.endswith
EndsWith(s, suffix) ==
    /\ Len(s) >= Len(suffix)
    /\ SubSeq(s, Len(s) - Len(suffix) + 1, Len(s)) = suffix

\* Faulty variant: '.html' is appended to the path, the '.md' extension is kept.
HtmlNameAppended(path) == path \o HtmlExt

\* html_name = path[:-3] + '.html'
HtmlName(path) == SubSeq(path, 1, Len(path) - 3) \o HtmlExt

\* Faulty variant: the HTML path goes into the URL as it is, not percent-encoded.
QuoteNothing(s) == s

\* urllib.parse.quote: unreserved characters and '/' are kept, every other
\* character is percent-encoded.
SafeChars == {"/", ".", "_", "-", "~", "a", "b", "c", "d", "g", "h", "l", "m", "t"}
QuoteChar(c) == IF c \in SafeChars THEN <<c>> ELSE <<"%", "2", "0">>
RECURSIVE Quote(_)
Quote(s) == IF s = << >> THEN << >> ELSE QuoteChar(Head(s)) \o Quote(Tail(s))

MdPaths == {PathDoc}
AllPaths == {PathDoc, PathDir, PathGone, PathNoDot} \cup {HtmlName(p) : p \in MdPaths}

\* ------------------------------------------------------------ contents
Marker == <<"<!-- Published file url:">>
TextLine == <<"# Hello">>
CloseLine == <<"-->">>
EmptyLine == << >>

\* md.split('\n')[0]
FirstLine(md) == md[1]

\* markdown(md, extensions=['gfm']): the rendering of md.
Markdown(md) == << <<"<html>">> >> \o md

\* url_comment, as the lines it holds (it ends in '\n').
UrlComment(file_key, url_name) ==
    << Marker,
       <<"https://dl.dropboxusercontent.com/s/", file_key>> \o url_name,
       CloseLine >>

PlainDoc == << TextLine >>
EmptyDoc == << EmptyLine >>
PublishedDoc == UrlComment("k-a", Quote(HtmlName(PathDoc))) \o PlainDoc
InitialDocs == {PlainDoc, EmptyDoc, PublishedDoc}

FileMeta == Some([is_dir |-> FALSE])
DirMeta == Some([is_dir |-> TRUE])

VARIABLES
    tokens,       \* redis hash 'tokens': uid -> access token or None
    cursors,      \* redis hash 'cursors': uid -> /delta cursor or None
    files,        \* Dropbox: uid -> path -> content or None
    changes,      \* Dropbox: uid -> the account's change history
    shareCalls,   \* Dropbox: uid -> html path -> number of share calls served
    runs,         \* the process_user invocations, in the order they started
    webhookResp,  \* the webhook POSTs so far, the last one's users and its answer
    checked       \* the signature header and raw body validate_request last saw

vars == <<tokens, cursors, files, changes, shareCalls, runs, webhookResp, checked>>

\* ---------------------------------------------------------- Dropbox
\* share(html_name, short_url=False)['url'].split('/')
ShareKey(name) == IF name = HtmlName(PathDoc) THEN "k-a" ELSE "k-other"
ShareUrlParts(name) == <<"https:", "", "www.dropbox.com", "s", ShareKey(name), "file?dl=0">>

CursorPos(c) == IF c = None THEN 0 ELSE c[1]

\* client.delta(cursor): the page of the history that follows the cursor.
DeltaResult(u, cursor) ==
    LET from == CursorPos(cursor)
        n == Len(changes[u])
        to == IF from + PageSize < n THEN from + PageSize ELSE n
    IN  [entries |-> SubSeq(changes[u], from + 1, to),
         cursor |-> Some(to),
         has_more |-> to < n]

\* client.put_file(path, content, overwrite=True): the file is replaced and
\* the write is a new entry of the account's change history.
PutFile(u, path, content) ==
    /\ files' = [files EXCEPT ![u][path] = Some(content)]
    /\ changes' = [changes EXCEPT ![u] = Append(@, <<path, FileMeta>>)]

\* ------------------------------------------------------ process_user
Finished(run) == run.pc \in {"done", "failed"}
ActiveFor(rs, u) == \E k \in 1..Len(rs) : rs[k].uid = u /\ ~Finished(rs[k])
RunsOf(rs, u) == {k \in 1..Len(rs) : rs[k].uid = u}
LastRunOf(rs, u) == CHOOSE k \in RunsOf(rs, u) : \A j \in RunsOf(rs, u) : j <= k

AllAnnotated(u) ==
    \A p \in MdPaths : files[u][p] # None => FirstLine(files[u][p][1]) = Marker

\* A fresh invocation of process_user(uid).  solo, clean and second record how
\* the invocation started: solo when no other invocation for the uid was
\* running, clean when moreover every Markdown file was annotated, second when
\* it follows a clean invocation that returned normally.
NewRun(rs, u) ==
    [uid |-> u, pc |-> "hget_token",
     token |-> None, cursor |-> None, has_more |-> FALSE,
     result |-> [entries |-> << >>, cursor |-> None, has_more |-> FALSE],
     i |-> 0, path |-> << >>, md |-> << >>, html_name |-> << >>,
     file_key |-> "", pending |-> FALSE,
     solo |-> ~ActiveFor(rs, u),
     clean |-> ~ActiveFor(rs, u) /\ AllAnnotated(u),
     second |-> /\ ~ActiveFor(rs, u)
                /\ RunsOf(rs, u) # {}
                /\ rs[LastRunOf(rs, u)].pc = "done"
                /\ rs[LastRunOf(rs, u)].clean]

\* Faulty variant: a uid with an invocation already running gets no second thread.
RECURSIVE SpawnAllOncePerUid(_, _)
SpawnAllOncePerUid(rs, users) ==
    IF users = << >> THEN rs
    ELSE IF ActiveFor(rs, Head(users)) THEN SpawnAllOncePerUid(rs, Tail(users))
    ELSE SpawnAllOncePerUid(Append(rs, NewRun(rs, Head(users))), Tail(users))

\* lines 158-163: one thread per uid listed in the body, in the body's order

RECURSIVE SpawnAll(_, _)
SpawnAll(rs, users) ==
    IF users = << >> THEN rs
    ELSE SpawnAll(Append(rs, NewRun(rs, Head(users))), Tail(users))

\* When process_user returns or raises, its frame and locals are gone: what is
\* left of the invocation is how it ended.
Ended(run, how) ==
    [run EXCEPT !.pc = how, !.token = None, !.cursor = None, !.has_more = FALSE,
                !.result = [entries |-> << >>, cursor |-> None, has_more |-> FALSE],
                !.i = 0, !.path = << >>, !.md = << >>, !.html_name = << >>,
                !.file_key = "", !.pending = FALSE]

Store(r, rec) == runs' = [runs EXCEPT ![r] = rec]

\* Faulty variant: the client accepts a call made without a token.
AuthorizedAny(token) == TRUE

\* The client refuses a call made without an access token.
Authorized(token) == token # None

\* line 72
HgetToken(r) ==
    /\ runs[r].pc = "hget_token"
    /\ Store(r, [runs[r] EXCEPT !.token = tokens[runs[r].uid], !.pc = "hget_cursor"])
    /\ UNCHANGED <<tokens, cursors, files, changes, shareCalls, webhookResp>>

\* Faulty variant: the stored cursor is not read, every run starts from no cursor.
HgetCursorIgnored(r) ==
    /\ runs[r].pc = "hget_cursor"
    /\ Store(r, [runs[r] EXCEPT !.cursor = None, !.has_more = TRUE, !.pc = "delta"])
    /\ UNCHANGED <<tokens, cursors, files, changes, shareCalls, webhookResp>>

\* lines 75-80: the cursor is read; building the client and entering the loop
\* touch nothing shared
HgetCursor(r) ==
    /\ runs[r].pc = "hget_cursor"
    /\ Store(r, [runs[r] EXCEPT !.cursor = cursors[runs[r].uid],
                                !.has_more = TRUE, !.pc = "delta"])
    /\ UNCHANGED <<tokens, cursors, files, changes, shareCalls, webhookResp>>

\* Faulty variant: the filter without its extension test.
IgnoredNoExtTest(path, metadata) ==
    \/ metadata = None
    \/ metadata[1].is_dir

\* Faulty variant: the filter without its directory test.
IgnoredNoDirTest(path, metadata) ==
    \/ metadata = None
    \/ ~EndsWith(path, MdExt)

\* lines 86-88
Ignored(path, metadata) ==
    \/ metadata = None
    \/ metadata[1].is_dir
    \/ ~EndsWith(path, MdExt)

\* Faulty variant: the loop picks the last entry of the batch that is not ignored.
NextTakenLast(es, i) ==
    LET S == {k \in i..Len(es) : ~Ignored(es[k][1], es[k][2])}
    IN  IF S = {} THEN (IF i > Len(es) THEN i ELSE Len(es) + 1)
        ELSE CHOOSE k \in S : \A j \in S : j <= k

\* lines 83-89: the index of the first entry at or after i that is not
\* ignored, or Len(es) + 1 when the rest of the batch is ignored
RECURSIVE NextTaken(_, _)
NextTaken(es, i) ==
    IF i > Len(es) THEN i
    ELSE IF Ignored(es[i][1], es[i][2]) THEN NextTaken(es, i + 1)
    ELSE i

\* lines 83-89: the for statement moves on from entry i.  It touches nothing
\* shared, so it is part of the step that precedes it: the run stops at the
\* next entry it has to fetch, or at the cursor update when none is left.
ForEntry(run) ==
    LET es == run.result.entries
        j == NextTaken(es, run.i)
    IN  IF j > Len(es)
        THEN [run EXCEPT !.i = j, !.pc = "hset"]
        ELSE [run EXCEPT !.i = j + 1, !.path = es[j][1], !.pc = "get_file"]

\* Faulty variant: delta is called with the cursor read from redis again, not the local.
DeltaFromStore(r) ==
    /\ runs[r].pc = "delta"
    /\ Authorized(runs[r].token)
    /\ Store(r, ForEntry([runs[r] EXCEPT
                            !.result = DeltaResult(runs[r].uid, cursors[runs[r].uid]),
                            !.i = 1, !.pending = TRUE]))
    /\ UNCHANGED <<tokens, cursors, files, changes, shareCalls, webhookResp>>

\* lines 81-89
Delta(r) ==
    /\ runs[r].pc = "delta"
    /\ Authorized(runs[r].token)
    /\ Store(r, ForEntry([runs[r] EXCEPT
                            !.result = DeltaResult(runs[r].uid, runs[r].cursor),
                            !.i = 1, !.pending = TRUE]))
    /\ UNCHANGED <<tokens, cursors, files, changes, shareCalls, webhookResp>>

\* lines 92-93
GetFile(r) ==
    LET run == runs[r]
    IN  /\ run.pc = "get_file"
        /\ Authorized(run.token)
        /\ files[run.uid][run.path] # None
        /\ Store(r, [run EXCEPT !.md = files[run.uid][run.path][1], !.pc = "put_html"])
        /\ UNCHANGED <<tokens, cursors, files, changes, shareCalls, webhookResp>>

\* Faulty variant: the first-line test is gone, every fetched text is annotated.
NeedsAnnotationAlways(md) == TRUE

\* Faulty variant: the marker is compared with the whole text, not its first line.
NeedsAnnotationWholeText(md) == <<Marker>> # md

\* line 100
NeedsAnnotation(md) == Marker # FirstLine(md)

\* lines 94-100, and lines 83-89 when the text is annotated already
PutHtml(r) ==
    LET run == runs[r]
        html == Markdown(run.md)
        html_name == HtmlName(run.path)
    IN  /\ run.pc = "put_html"
        /\ Authorized(run.token)
        /\ PutFile(run.uid, html_name, html)
        /\ Store(r, IF NeedsAnnotation(run.md)
                     THEN [run EXCEPT !.html_name = html_name, !.pc = "share"]
                     ELSE ForEntry([run EXCEPT !.html_name = html_name]))
        /\ UNCHANGED <<tokens, cursors, shareCalls, webhookResp>>

\* lines 101-102
Share(r) ==
    LET run == runs[r]
    IN  /\ run.pc = "share"
        /\ Authorized(run.token)
        /\ shareCalls' = [shareCalls EXCEPT ![run.uid][run.html_name] = @ + 1]
        /\ Store(r, [run EXCEPT !.file_key = ShareUrlParts(run.html_name)[5],
                                !.pc = "put_md"])
        /\ UNCHANGED <<tokens, cursors, files, changes, webhookResp>>

\* Faulty variant: the comment is put before the file as it is now, not before
\* the text the run fetched.
PutMdOntoCurrent(r) ==
    LET run == runs[r]
        md == UrlComment(run.file_key, Quote(run.html_name)) \o files[run.uid][run.path][1]
    IN  /\ run.pc = "put_md"
        /\ Authorized(run.token)
        /\ PutFile(run.uid, run.path, md)
        /\ Store(r, ForEntry([run EXCEPT !.md = md]))
        /\ UNCHANGED <<tokens, cursors, shareCalls, webhookResp>>

\* lines 104-109, then lines 83-89
PutMd(r) ==
    LET run == runs[r]
        md == UrlComment(run.file_key, Quote(run.html_name)) \o run.md
    IN  /\ run.pc = "put_md"
        /\ Authorized(run.token)
        /\ PutFile(run.uid, run.path, md)
        /\ Store(r, ForEntry([run EXCEPT !.md = md]))
        /\ UNCHANGED <<tokens, cursors, shareCalls, webhookResp>>

\* Faulty variant: has_more is not updated from the result, the loop never ends.
HsetCursorLooping(r) ==
    LET run == runs[r]
    IN  /\ run.pc = "hset"
        /\ cursors' = [cursors EXCEPT ![run.uid] = run.result.cursor]
        /\ Store(r, [run EXCEPT !.cursor = run.result.cursor,
                                !.has_more = TRUE,
                                !.pending = FALSE,
                                !.pc = "delta"])
        /\ UNCHANGED <<tokens, files, changes, shareCalls, webhookResp>>

\* Faulty variant: the batch's cursor is kept in the local only, not written to redis.
HsetCursorLocalOnly(r) ==
    LET run == runs[r]
    IN  /\ run.pc = "hset"
        /\ Store(r, IF run.result.has_more
                     THEN [run EXCEPT !.cursor = run.result.cursor,
                                      !.has_more = TRUE,
                                      !.pending = FALSE,
                                      !.pc = "delta"]
                     ELSE Ended(run, "done"))
        /\ UNCHANGED <<tokens, cursors, files, changes, shareCalls, webhookResp>>

\* lines 112-116
HsetCursor(r) ==
    LET run == runs[r]
    IN  /\ run.pc = "hset"
        /\ cursors' = [cursors EXCEPT ![run.uid] = run.result.cursor]
        /\ Store(r, IF run.result.has_more
                     THEN [run EXCEPT !.cursor = run.result.cursor,
                                      !.has_more = TRUE,
                                      !.pending = FALSE,
                                      !.pc = "delta"]
                     ELSE Ended(run, "done"))
        /\ UNCHANGED <<tokens, files, changes, shareCalls, webhookResp>>

\* Faulty variant: a failing call still persists the cursor of the batch in progress
\* (the cursor write in a finally clause).
RaisePersisting(r) ==
    /\ runs[r].pc \in {"delta", "get_file", "put_html", "share", "put_md"}
    /\ cursors' = [cursors EXCEPT ![runs[r].uid] =
                      IF runs[r].pending THEN runs[r].result.cursor ELSE @]
    /\ Store(r, Ended(runs[r], "failed"))
    /\ UNCHANGED <<tokens, files, changes, shareCalls, webhookResp>>

\* A DropboxClient call or markdown() raises: nothing catches it, and the
\* invocation ends there.  A client built without a token raises when it is
\* built or at its first call, either way where the run is to call delta.
Raise(r) ==
    /\ runs[r].pc \in {"delta", "get_file", "put_html", "share", "put_md"}
    /\ Store(r, Ended(runs[r], "failed"))
    /\ UNCHANGED <<tokens, cursors, files, changes, shareCalls, webhookResp>>

\* ------------------------------------------------------------ handlers
\* lines 54-65: the token is stored, then process_user runs in the request
OauthCallback(u) ==
    /\ Len(runs) < MaxRuns
    /\ tokens' = [tokens EXCEPT ![u] = Some("token")]
    /\ runs' = Append(runs, NewRun(runs, u))
    /\ UNCHANGED <<cursors, files, changes, shareCalls, webhookResp>>

\* hmac.new(key, data, sha256).hexdigest(): lower-case hex digits
Hexdigest(key, data) == [key |-> key, data |-> data, hex |-> "lower"]

\* lines 134-140
validate_request(signature, data) ==
    signature = Some(Hexdigest(APP_SECRET, data))

\* Faulty variant: the failed validation does not end the request (abort is missing).
WebhookNoAbort(signature, users) ==
    /\ webhookResp.n < MaxReqs
    /\ Len(runs) + Len(users) <= MaxRuns
    /\ runs' = SpawnAll(runs, users)
    /\ webhookResp' = [n |-> webhookResp.n + 1, users |-> users,
                       verified |-> validate_request(signature, users),
                       status |-> 200]
    /\ UNCHANGED <<tokens, cursors, files, changes, shareCalls>>

\* lines 151-165
Webhook(signature, users) ==
    /\ webhookResp.n < MaxReqs
    /\ IF ~validate_request(signature, users)
       THEN /\ webhookResp' = [n |-> webhookResp.n + 1, users |-> users,
                               verified |-> FALSE, status |-> 403]
            /\ UNCHANGED runs
       ELSE /\ Len(runs) + Len(users) <= MaxRuns
            /\ runs' = SpawnAll(runs, users)
            /\ webhookResp' = [n |-> webhookResp.n + 1, users |-> users,
                               verified |-> TRUE, status |-> 200]
    /\ UNCHANGED <<tokens, cursors, files, changes, shareCalls>>

\* ---------------------------------------------------------------- inputs
Bodies == {<<1>>, <<2>>, <<1, 1>>}
Signatures ==
    {None, Some([key |-> "other-secret", data |-> <<1>>, hex |-> "lower"])} \cup
    {Some([key |-> APP_SECRET, data |-> d, hex |-> h]) :
        d \in Bodies, h \in {"lower", "upper"}}

InitialChanges(u) ==
    IF u = 1
    THEN << <<PathDoc, FileMeta>>, <<PathDoc, FileMeta>>,
            <<PathGone, None>>, <<PathNoDot, FileMeta>>, <<PathDir, DirMeta>> >>
    ELSE << >>

Init ==
    /\ tokens = [u \in Uids |-> IF u = 1 THEN Some("token") ELSE None]
    /\ cursors = [u \in Uids |-> None]
    /\ \E doc \in InitialDocs :
         files = [u \in Uids |-> [p \in AllPaths |->
                    IF u = 1 /\ p = PathDoc THEN Some(doc)
                    ELSE IF u = 1 /\ p = PathNoDot THEN Some(PlainDoc)
                    ELSE None]]
    /\ changes = [u \in Uids |-> InitialChanges(u)]
    /\ shareCalls = [u \in Uids |-> [p \in AllPaths |-> 0]]
    /\ runs = << >>
    /\ webhookResp = [n |-> 0, users |-> << >>, verified |-> FALSE, status |-> 0]
    /\ checked = [signature |-> None, data |-> << >>]

Next ==
    \/ \E u \in Uids : OauthCallback(u) /\ UNCHANGED checked
    \/ \E s \in Signatures, b \in Bodies : Webhook(s, b) /\ UNCHANGED checked
    \/ \E r \in 1..Len(runs) : HgetToken(r) /\ UNCHANGED checked
    \/ \E r \in 1..Len(runs) : HgetCursor(r) /\ UNCHANGED checked
    \/ \E r \in 1..Len(runs) : Delta(r) /\ UNCHANGED checked
    \/ \E r \in 1..Len(runs) : GetFile(r) /\ UNCHANGED checked
    \/ \E r \in 1..Len(runs) : PutHtml(r) /\ UNCHANGED checked
    \/ \E r \in 1..Len(runs) : Share(r) /\ UNCHANGED checked
    \/ \E r \in 1..Len(runs) : PutMd(r) /\ UNCHANGED checked
    \/ \E r \in 1..Len(runs) : HsetCursor(r) /\ UNCHANGED checked
    \/ \E r \in 1..Len(runs) : Raise(r) /\ UNCHANGED checked

Spec == Init /\ [][Next]_vars

\* The request handlers alone, with what validate_request was given kept.
NextVerify ==
    \/ \E u \in Uids : OauthCallback(u) /\ UNCHANGED checked
    \/ \E s \in Signatures, b \in Bodies :
          Webhook(s, b) /\ checked' = [signature |-> s, data |-> b]

SpecVerify == Init /\ [][NextVerify]_vars

\* Runs whose client calls all return: a call raises only for want of a token.
\* Webhook requests are the signed ones, a rejected request starts no run.
\* Every thread that can take a step eventually takes one.
RunStep(r) ==
    /\ r <= Len(runs)
    /\ \/ HgetToken(r) \/ HgetCursor(r) \/ Delta(r) \/ GetFile(r) \/ PutHtml(r)
       \/ Share(r) \/ PutMd(r) \/ HsetCursor(r)
       \/ Raise(r) /\ ~Authorized(runs[r].token)
    /\ UNCHANGED checked

NextLive ==
    \/ \E u \in Uids : OauthCallback(u) /\ UNCHANGED checked
    \/ \E b \in Bodies : Webhook(Some(Hexdigest(APP_SECRET, b)), b) /\ UNCHANGED checked
    \/ \E r \in 1..Len(runs) : HgetToken(r) /\ UNCHANGED checked
    \/ \E r \in 1..Len(runs) : HgetCursor(r) /\ UNCHANGED checked
    \/ \E r \in 1..Len(runs) : Delta(r) /\ UNCHANGED checked
    \/ \E r \in 1..Len(runs) : GetFile(r) /\ UNCHANGED checked
    \/ \E r \in 1..Len(runs) : PutHtml(r) /\ UNCHANGED checked
    \/ \E r \in 1..Len(runs) : Share(r) /\ UNCHANGED checked
    \/ \E r \in 1..Len(runs) : PutMd(r) /\ UNCHANGED checked
    \/ \E r \in 1..Len(runs) : HsetCursor(r) /\ UNCHANGED checked
    \/ \E r \in 1..Len(runs) : Raise(r) /\ ~Authorized(runs[r].token) /\ UNCHANGED checked

SpecLive == Init /\ [][NextLive]_vars /\ \A r \in 1..MaxRuns : WF_vars(RunStep(r))

\* ================================================================ claims
RunIds == 1..Len(runs)
Stores == <<tokens, cursors, files, changes, shareCalls>>
Moved(r) == runs'[r] # runs[r]
Marked(u, p) == files[u][p] # None /\ files[u][p][1][1] = Marker
SourceWritten(u, p) ==
    /\ Len(changes'[u]) > Len(changes[u])
    /\ changes'[u][Len(changes'[u])][1] = p

\* C1: once a Markdown document's first line is the marker, no run creates a
\* share link for it or writes its source path again.
C1_AnnotatedAtMostOnce ==
    [][\A u \in Uids, p \in MdPaths :
          Marked(u, p) =>
            /\ shareCalls'[u][HtmlName(p)] = shareCalls[u][HtmlName(p)]
            /\ ~SourceWritten(u, p)]_vars

\* C2: for every uid at most one invocation of process_user is between its
\* start and its end.
C2_OneRunPerUid ==
    \A u \in Uids :
        Cardinality({r \in RunIds : runs[r].uid = u /\ ~Finished(runs[r])}) <= 1

\* C3: no write to cursors[uid] moves the stored cursor back in the user's
\* change history.
C3_CursorNeverRewound ==
    [][\A u \in Uids : CursorPos(cursors'[u]) >= CursorPos(cursors[u])]_vars

\* C4: a run asks for a batch only when its previous batch's cursor has been
\* written, and the write that ends a batch leaves cursors[uid] (and the
\* cursor of the next call) equal to the cursor that batch returned.
C4_CursorPersistedPerBatch ==
    /\ [](\A r \in RunIds : runs[r].pc = "delta" => ~runs[r].pending)
    /\ [][\A r \in RunIds :
            runs[r].pc = "hset" /\ Moved(r) =>
              /\ cursors'[runs[r].uid] = runs[r].result.cursor
              /\ runs'[r].pc \in {"delta", "done"}
              /\ runs'[r].pc = "delta" =>
                   runs'[r].cursor = runs[r].result.cursor /\ ~runs'[r].pending]_vars

C4_Witness ==
    \E r \in RunIds :
        /\ runs[r].pc = "delta"
        /\ runs[r].cursor = Some(2 * PageSize)
        /\ cursors[runs[r].uid] = Some(2 * PageSize)

\* C5: a run whose fetched content starts with the marker neither asks for a
\* share link nor writes the source path for that entry.
C5_MarkedEntryUntouched ==
    /\ [](\A r \in RunIds :
            runs[r].pc \in {"share", "put_md"} => runs[r].md[1] # Marker)
    /\ [][\A r \in RunIds :
            runs[r].pc = "put_html" /\ runs[r].md[1] = Marker /\ Moved(r) =>
              /\ runs'[r].pc \in {"get_file", "hset", "failed"}
              /\ shareCalls' = shareCalls
              /\ files'[runs[r].uid][runs[r].path] = files[runs[r].uid][runs[r].path]]_vars

C5_Witness ==
    \E r \in RunIds :
        /\ runs[r].pc = "hset"
        /\ runs[r].md # << >>
        /\ runs[r].md[1] = Marker
        /\ shareCalls[runs[r].uid][runs[r].html_name] = 0
        /\ files[runs[r].uid][runs[r].html_name] = Some(Markdown(runs[r].md))

\* C6: a run that follows, with no overlap, a run that returned normally and
\* that started with every Markdown file annotated makes no share call and no
\* write.
C6_SecondRunIdle ==
    [][\A r \in RunIds :
          runs[r].second /\ Moved(r) =>
            /\ shareCalls' = shareCalls
            /\ files' = files
            /\ changes' = changes]_vars

C6_Witness ==
    \E r \in RunIds : runs[r].second /\ runs[r].pc = "done"

\* C7: a run makes its calls only for an entry whose metadata is present and
\* no directory and whose path ends in .md; every other entry of the batch is
\* passed over, and the run reaches the cursor update with the batch consumed.
C7_FilteredEntryNoCalls ==
    \A r \in RunIds :
        /\ runs[r].pc \in {"get_file", "put_html", "share", "put_md"} =>
              LET e == runs[r].result.entries[runs[r].i - 1]
              IN  /\ e[2] # None
                  /\ ~e[2][1].is_dir
                  /\ Len(e[1]) >= 3
                  /\ SubSeq(e[1], Len(e[1]) - 2, Len(e[1])) = <<".", "m", "d">>
                  /\ runs[r].path = e[1]
        /\ runs[r].pc = "hset" => runs[r].i = Len(runs[r].result.entries) + 1

C7_Witness ==
    \E r \in RunIds :
        /\ runs[r].pc = "hset"
        /\ Len(runs[r].result.entries) = 2
        /\ runs[r].result.entries[1][2] = None
        /\ runs[r].result.entries[2][1] = PathNoDot
        /\ runs[r].path = PathDoc

\* C8: a run that found no access token for its uid never gets a batch, never
\* returns normally, and none of its steps changes Dropbox or the cursor.
C8_NoCredentialNoMutation ==
    /\ [](\A r \in RunIds :
            runs[r].token = None /\ ~Finished(runs[r]) =>
              runs[r].pc \in {"hget_token", "hget_cursor", "delta"})
    /\ [][\A r \in RunIds :
            (/\ runs[r].token = None
             /\ runs[r].pc \in {"hget_cursor", "delta"}
             /\ Moved(r))
            => /\ runs'[r].pc \in {"delta", "failed"}
               /\ UNCHANGED Stores]_vars

C8_Witness ==
    \E r \in RunIds :
        /\ runs[r].uid = 2
        /\ runs[r].pc = "failed"
        /\ tokens[2] = None
        /\ cursors[2] = None

\* C9: a run that fails leaves the cursor store, the files and the share links
\* as they are, and does nothing afterwards; when it is the only run of its
\* uid, the stored cursor is the one of its last completed batch.
C9_FailureKeepsCommitted ==
    [][\A r \in RunIds :
          /\ (~Finished(runs[r]) /\ runs'[r].pc = "failed") =>
               /\ UNCHANGED Stores
               /\ Cardinality(RunsOf(runs, runs[r].uid)) = 1 =>
                    cursors'[runs[r].uid] = runs[r].cursor
          /\ Finished(runs[r]) => ~Moved(r)]_vars

C9_Witness ==
    \E r \in RunIds :
        /\ runs[r].pc = "failed"
        /\ Cardinality(RunsOf(runs, runs[r].uid)) = 1
        /\ cursors[runs[r].uid] = Some(PageSize)
        /\ Marked(runs[r].uid, PathDoc)
        /\ shareCalls[runs[r].uid][HtmlName(PathDoc)] = 1
        /\ Len(changes[runs[r].uid]) > CursorPos(cursors[runs[r].uid])

\* C10: a webhook POST whose signature does not verify is answered 403 and
\* starts no run and changes no store.
C10_ForgedWebhookNoWork ==
    [][(webhookResp' # webhookResp /\ ~webhookResp'.verified) =>
          /\ webhookResp'.status = 403
          /\ runs' = runs
          /\ UNCHANGED Stores]_vars

C10_Witness ==
    /\ webhookResp.status = 403
    /\ runs # << >>

\* C11: a webhook POST whose signature is valid is answered 200 and adds one
\* invocation of process_user per uid listed in the body, duplicates included
\* (k listings of a uid give k invocations), each not yet started when the
\* answer is given; no running invocation is waited for or touched, and the
\* handler itself writes nothing.
C11_OneRunPerListedUid ==
    [][webhookResp'.n # webhookResp.n /\ webhookResp'.verified =>
          LET users == webhookResp'.users
          IN  /\ webhookResp'.status = 200
              /\ Len(runs') = Len(runs) + Len(users)
              /\ SubSeq(runs', 1, Len(runs)) = runs
              /\ \A k \in 1..Len(users) :
                    /\ runs'[Len(runs) + k].uid = users[k]
                    /\ runs'[Len(runs) + k].pc = "hget_token"
              /\ UNCHANGED Stores]_vars

C11_Witness ==
    /\ webhookResp.status = 200
    /\ webhookResp.users = <<1, 1>>
    /\ Len(runs) = 2
    /\ \A r \in RunIds : runs[r].uid = 1 /\ runs[r].pc = "hget_token"

\* C12: validate_request accepts a request exactly when the signature header
\* is present and equals the HMAC-SHA256 hex digest of the raw body under
\* APP_SECRET once the case of the hex digits is disregarded: the digest in
\* upper-case hex is accepted; a missing header, a digest of another body and
\* a digest under another key are rejected.
C12_SignatureCaseInsensitive ==
    webhookResp.n > 0 =>
        (webhookResp.verified <=>
            /\ checked.signature # None
            /\ [checked.signature[1] EXCEPT !.hex = "lower"]
                   = Hexdigest(APP_SECRET, checked.data))

\* C13: when a run writes a source path back, what it had fetched did not start
\* with the marker, and the content written is the marker line, the line
\* 'https://dl.dropboxusercontent.com/s/' + key of the share link of the HTML
\* sibling + percent-encoded HTML path, and the line closing the comment,
\* followed by the fetched content unchanged.
C13_Block ==
    << Marker,
       <<"https://dl.dropboxusercontent.com/s/", "k-a",
         "/", "a", "%", "2", "0", "b", ".", "h", "t", "m", "l">>,
       <<"-->">> >>

C13_AnnotationPrepended ==
    [][\A r \in RunIds :
          runs[r].pc = "put_md" /\ Moved(r) /\ runs'[r].pc # "failed" =>
            LET u == runs[r].uid
                written == files'[u][runs[r].path]
            IN  /\ runs[r].md[1] # Marker
                /\ SourceWritten(u, runs[r].path)
                /\ written = Some(C13_Block \o runs[r].md)
                /\ written[1][1] = Marker
                /\ SubSeq(written[1], 4, Len(written[1])) = runs[r].md]_vars

C13_Witness ==
    /\ files[1][PathDoc] = Some(C13_Block \o << <<"# Hello">> >>)
    /\ shareCalls[1][HtmlName(PathDoc)] = 1
    /\ Len(changes[1]) > Len(InitialChanges(1))
    /\ changes[1][Len(changes[1])][1] = PathDoc

\* C14: a run for a uid that starts after an earlier run for that uid was
\* aborted, and that overlaps no other run for the uid, requests batches only
\* from the cursor stored last, so no batch whose cursor was stored is
\* requested again; and while it replays, a document whose first line is the
\* marker already gets no share link and no source write (its HTML may be
\* written again).
C14_Replaying(r) ==
    /\ runs[r].solo
    /\ ~Finished(runs[r])
    /\ LastRunOf(runs, runs[r].uid) = r
    /\ \E k \in 1..(r - 1) : runs[k].uid = runs[r].uid /\ runs[k].pc = "failed"

C14_ReplayDoesNotReannotate ==
    /\ [](\A r \in RunIds :
            C14_Replaying(r) /\ runs[r].pending =>
              CursorPos(runs[r].result.cursor) - Len(runs[r].result.entries)
                  = CursorPos(cursors[runs[r].uid]))
    /\ [][\A r \in RunIds, p \in MdPaths :
            C14_Replaying(r) /\ Moved(r) /\ Marked(runs[r].uid, p) =>
              /\ shareCalls'[runs[r].uid][HtmlName(p)] = shareCalls[runs[r].uid][HtmlName(p)]
              /\ ~SourceWritten(runs[r].uid, p)]_vars

\* The first run annotated the document and was aborted in its first batch;
\* the second has fetched both entries of that batch again.
C14_Witness ==
    \E r \in RunIds :
        /\ C14_Replaying(r)
        /\ cursors[runs[r].uid] = None
        /\ runs[r].pc = "hset"
        /\ runs[r].result.cursor = Some(PageSize)
        /\ runs[r].path = PathDoc
        /\ Marked(runs[r].uid, PathDoc)
        /\ shareCalls[runs[r].uid][HtmlName(PathDoc)] = 1
        /\ Cardinality({k \in 1..Len(changes[runs[r].uid]) :
                           changes[runs[r].uid][k][1] = PathDoc}) = 3

\* C15: the local cursor of a run is set from cursors[uid] when the run starts
\* (None when nothing is stored) and after that only to the cursor of the
\* batch it just finished; every delta call returns the changes that follow
\* the local cursor, whatever cursors[uid] holds by then, so the batches of a
\* run follow one another without a gap.
C15_CursorThreaded ==
    [][\A r \in RunIds :
          Moved(r) /\ ~Finished(runs'[r]) =>
            LET u == runs[r].uid
                from == CursorPos(runs[r].cursor)
                batch == runs'[r].result
            IN  /\ runs[r].pc = "hget_cursor" => runs'[r].cursor = cursors[u]
                /\ runs[r].pc = "hset" => runs'[r].cursor = runs[r].result.cursor
                /\ runs[r].pc \notin {"hget_cursor", "hset"} =>
                      runs'[r].cursor = runs[r].cursor
                /\ runs[r].pc = "delta" =>
                      /\ Len(batch.entries) <= PageSize
                      /\ batch.entries =
                           SubSeq(changes[u], from + 1, from + Len(batch.entries))
                      /\ batch.cursor = Some(from + Len(batch.entries))
                      /\ batch.has_more <=> from + Len(batch.entries) < Len(changes[u])
                      /\ ~batch.has_more /\ Len(batch.entries) < PageSize =>
                            from + Len(batch.entries) = Len(changes[u])]_vars

\* A run holds a batch that follows its own cursor while redis holds another.
C15_Witness ==
    \E r \in RunIds :
        /\ runs[r].pending
        /\ runs[r].cursor # None
        /\ cursors[runs[r].uid] # runs[r].cursor
        /\ runs[r].result.entries # << >>
        /\ runs[r].result.cursor
             = Some(CursorPos(runs[r].cursor) + Len(runs[r].result.entries))

\* C16: a run takes the entries of a batch in the order delta returned them,
\* passing over ignored entries only, and asks for the next batch only when
\* the batch is exhausted; for the entry in hand its calls come in the order
\* get_file(path), put_file(html_name), then, when the fetched text does not
\* start with the marker, share(html_name) and put_file(path); the next entry
\* is fetched only after the last call for the entry in hand.
C16_PassedOver(es, from, to) ==
    \A k \in from..to : Ignored(es[k][1], es[k][2])

C16_StrictOrder ==
    /\ [](\A r \in RunIds :
            /\ runs[r].pc = "hset" => runs[r].i = Len(runs[r].result.entries) + 1
            /\ runs[r].pc \in {"share", "put_md"} =>
                  /\ runs[r].html_name = HtmlName(runs[r].path)
                  /\ files[runs[r].uid][runs[r].html_name] # None)
    /\ [][\A r \in RunIds :
            Moved(r) /\ ~Finished(runs'[r]) =>
              LET pc == runs[r].pc
                  next == runs'[r].pc
                  es == runs'[r].result.entries
                  first == IF pc = "delta" THEN 1 ELSE runs[r].i
                  SameEntry == /\ runs'[r].i = runs[r].i
                               /\ runs'[r].path = runs[r].path
                               /\ runs'[r].result = runs[r].result
              IN  /\ pc = "get_file" => next = "put_html" /\ SameEntry
                  /\ pc = "put_html" =>
                        IF runs[r].md[1] # Marker
                        THEN next = "share" /\ SameEntry
                        ELSE next \in {"get_file", "hset"}
                  /\ pc = "share" => next = "put_md" /\ SameEntry
                  /\ pc = "put_md" => next \in {"get_file", "hset"}
                  /\ pc = "hset" => next = "delta"
                  /\ next = "delta" => pc \in {"hget_cursor", "hset"}
                  /\ pc # "delta" /\ next \in {"get_file", "hset"} =>
                        runs'[r].result = runs[r].result
                  /\ next = "get_file" =>
                        /\ runs'[r].i - 1 \in first..Len(es)
                        /\ runs'[r].path = es[runs'[r].i - 1][1]
                        /\ ~Ignored(es[runs'[r].i - 1][1], es[runs'[r].i - 1][2])
                        /\ C16_PassedOver(es, first, runs'[r].i - 2)
                  /\ next = "hset" => C16_PassedOver(es, first, Len(es))
                  /\ shareCalls' # shareCalls => pc = "share"]_vars

\* A run has annotated the first entry of its batch and fetched the second.
C16_Witness ==
    \E r \in RunIds :
        /\ runs[r].pc = "put_html"
        /\ runs[r].i = 3
        /\ runs[r].result.entries = SubSeq(InitialChanges(1), 1, 2)
        /\ runs[r].md = C13_Block \o << <<"# Hello">> >>
        /\ shareCalls[runs[r].uid][HtmlName(PathDoc)] = 1

\* C17: for every entry a run fetched, marked or not, the next call writes the
\* rendering of the fetched text to the path that has '.html' in place of
\* '.md', replacing what was there; only then does the marker decide, and it
\* decides on the share link and the source write alone.
C17_HtmlAlwaysWritten ==
    [][\A r \in RunIds :
          runs[r].pc = "put_html" /\ Moved(r) /\ runs'[r].pc # "failed" =>
            LET u == runs[r].uid
                sibling == SubSeq(runs[r].path, 1, Len(runs[r].path) - 3)
                               \o <<".", "h", "t", "m", "l">>
            IN  /\ SubSeq(runs[r].path, Len(runs[r].path) - 2, Len(runs[r].path))
                     = <<".", "m", "d">>
                /\ sibling \in AllPaths
                /\ files'[u][sibling] = Some(<< <<"<html>">> >> \o runs[r].md)
                /\ SourceWritten(u, sibling)
                /\ \A p \in AllPaths \ {sibling} : files'[u][p] = files[u][p]
                /\ shareCalls' = shareCalls]_vars

\* A run fetched a text that starts with the marker and wrote its HTML again
\* over the HTML of the text as it was before the annotation.
C17_Witness ==
    \E r \in RunIds :
        /\ runs[r].pc \in {"get_file", "hset"}
        /\ runs[r].html_name = <<"/", "a", " ", "b", ".", "h", "t", "m", "l">>
        /\ runs[r].md[1] = Marker
        /\ files[runs[r].uid][runs[r].html_name] = Some(<< <<"<html>">> >> \o runs[r].md)
        /\ changes[runs[r].uid][Len(changes[runs[r].uid])][1] = runs[r].html_name
        /\ Cardinality({k \in 1..Len(changes[runs[r].uid]) :
                           changes[runs[r].uid][k][1] = runs[r].html_name}) >= 2

\* C18: a run whose client calls all return ends normally exactly at the
\* cursor update of a batch that reported has_more = false, with that batch's
\* cursor stored; once ended it makes no further call; and every such run
\* that holds a token does end normally.
C18_TerminatesOnLastBatch ==
    /\ [][\A r \in RunIds :
            Moved(r) =>
              /\ runs[r].pc # "done"
              /\ runs'[r].pc = "done" =>
                    /\ runs[r].pc = "hset"
                    /\ ~runs[r].result.has_more
                    /\ cursors'[runs[r].uid] = runs[r].result.cursor
              /\ runs[r].pc = "hset" /\ ~runs[r].result.has_more =>
                    runs'[r].pc = "done"]_vars
    /\ \A r \in 1..MaxRuns :
          (r <= Len(runs) /\ runs[r].token # None)
              ~> (r <= Len(runs) /\ runs[r].pc = "done")

\* A run for user 1 has ended normally after the batch that reached the end
\* of a history longer than the initial one.
C18_Witness ==
    \E r \in RunIds :
        /\ runs[r].pc = "done"
        /\ runs[r].uid = 1
        /\ \A k \in RunIds : Finished(runs[k])
        /\ Len(changes[1]) > Len(InitialChanges(1))
        /\ cursors[1] = Some(Len(changes[1]))

\* C19: however the runs for a uid interleave, a Markdown file holds the
\* marker line at most once: every write of a source path puts one comment
\* before a text that has no marker line, also when two runs fetched the
\* unannotated text and both write it back.
C19_MarkerLines(content) ==
    Cardinality({k \in 1..Len(content) : content[k] = Marker})

C19_NoStackedBlocks ==
    /\ [](\A u \in Uids, p \in MdPaths :
            files[u][p] # None => C19_MarkerLines(files[u][p][1]) <= 1)
    /\ [][\A u \in Uids, p \in MdPaths :
            SourceWritten(u, p) =>
              /\ files'[u][p][1][1] = Marker
              /\ C19_MarkerLines(files'[u][p][1]) = 1]_vars

\* Two runs have both written the source back, and the file holds one comment.
C19_Witness ==
    /\ shareCalls[1][HtmlName(PathDoc)] = 2
    /\ Cardinality({k \in 1..Len(changes[1]) : changes[1][k][1] = PathDoc}) = 4
    /\ files[1][PathDoc] \in {Some(C13_Block \o << <<"# Hello">> >>), Some(C13_Block \o << << >> >>)}

\* C20: with the run's own writes coming back as later entries, a path a run
\* fetches, renders or annotates is always a '.md' path, never the '.html'
\* file; and when no two runs for a uid overlap, every Markdown file is
\* written back at most once, and a run that follows a normally ended run for
\* its uid writes no source and asks for no share link.
C20_Sequential == \A r \in RunIds : runs[r].solo

C20_Quiesces ==
    /\ [](\A r \in RunIds :
            runs[r].pc \in {"get_file", "put_html", "share", "put_md"} =>
              /\ runs[r].path \in MdPaths
              /\ runs[r].path \notin {HtmlName(p) : p \in MdPaths})
    /\ [](C20_Sequential =>
            \A u \in Uids, p \in MdPaths :
               Cardinality({k \in 1..Len(changes[u]) : changes[u][k][1] = p})
                 <= Cardinality({k \in 1..Len(InitialChanges(u)) :
                                    InitialChanges(u)[k][1] = p}) + 1)
    /\ [][\A r \in RunIds :
            /\ C20_Sequential
            /\ Moved(r)
            /\ \E k \in 1..(r - 1) : runs[k].uid = runs[r].uid /\ runs[k].pc = "done"
            => /\ shareCalls' = shareCalls
               /\ \A p \in MdPaths : ~SourceWritten(runs[r].uid, p)]_vars

\* Two runs for user 1, one after the other, have both ended normally: one
\* source write and one share link in all, and the second run has read the
\* entries of the first run's writes.
C20_Witness ==
    /\ Len(runs) = 2
    /\ C20_Sequential
    /\ \A r \in RunIds : runs[r].uid = 1 /\ runs[r].pc = "done"
    /\ shareCalls[1][HtmlName(PathDoc)] = 1
    /\ Cardinality({k \in 1..Len(changes[1]) : changes[1][k][1] = PathDoc}) = 3
    /\ Cardinality({k \in 1..Len(changes[1]) : changes[1][k][1] = HtmlName(PathDoc)}) >= 3
    /\ cursors[1] = Some(Len(changes[1]))

====
